---- MODULE Spec2Model ----
(***************************************************************************)
(* A model of the scheduling core of tenzing-core: the MCTS tree over      *)
(* operation orderings (include/sched/mcts_node.hpp), the frontier         *)
(* expander (src/mcts_node.cpp) and the broadcast of an ordering           *)
(* (src/mcts.cpp).                                                         *)
(***************************************************************************)
EXTENDS Integers, Sequences, FiniteSets, TLC

(***************************************************************************)
(* Bounds of the model.                                                    *)
(***************************************************************************)
\* largest number of operations of a graph searched by the tree driver
MaxOps == 4
\* iteration budget of the tree driver
MaxIters == 8
\* number of distinct finite UCT values an evaluation can produce
UctLevels == 2
\* largest number of operations of the graphs given to get_frontier and to
\* mcts(), beside the graphs of the scenarios
MaxSmallOps == 3
\* stream budget: streams make_platform_variations may add to the default one
StreamBudget == 2
\* largest number of synchronization operations in a completed sequence
MaxSyncs == 4
\* number of MPI ranks
NumRanks == 2
\* broadcasts rank 0 can have sent to a rank that has not received them yet
MaxInFlight == 3

VARIABLES
    g,          \* the operation graph (immutable during a search)
    tree,       \* the MCTS tree: node key -> Node
    pc,         \* position of the driver inside one iteration
    selected,   \* node returned by select
    child,      \* node returned by expand
    order,      \* ordering returned by get_simulation_order
    iter,       \* completed driver iterations
    twin,       \* a second run of the search, given the inputs of the first
    pool,       \* a CudaEventPool and the position of a call of its new_event
    cmp,        \* two operations of one variant and the results of == and < on them
    fg,         \* the Graph<OpBase> given to get_frontier
    completed,  \* the Sequence<BoundOp> of operations scheduled so far
    plat,       \* the Platform
    ret,        \* the last call on the Platform: its name, argument and result
    issued,     \* ids new_event returned since construction or the last reset (history)
    ensured,    \* ensure_events was called since construction or the last reset (history)
    ranks,      \* per MPI rank: its position in mcts() and its locals
    chan,       \* per receiving rank: the broadcasts sent and not yet received
    bcastOrders \* iteration -> the ordering rank 0 broadcast in it (history)

treeVars == <<g, tree, pc, selected, child, order, iter>>

frontierVars == <<fg, completed, plat, ret, issued, ensured, twin, pool, cmp>>

bcastVars == <<ranks, chan, bcastOrders>>

vars == <<g, tree, pc, selected, child, order, iter, twin, pool, cmp, fg, completed, plat,
          ret, issued, ensured, ranks, chan, bcastOrders>>

(***************************************************************************)
(* Sequence helpers.                                                       *)
(***************************************************************************)
InSeq(s, x) == \E i \in DOMAIN s : s[i] = x

RemoveAt(s, i) == SubSeq(s, 1, i - 1) \o SubSeq(s, i + 1, Len(s))

Reverse(s) == [i \in 1..Len(s) |-> s[Len(s) + 1 - i]]

Min(S) == CHOOSE x \in S : \A y \in S : x <= y

\* iteration order of a std::set of operations: ascending in the ops' order
RECURSIVE SetToSeq(_)
SetToSeq(S) == IF S = {} THEN <<>> ELSE <<Min(S)>> \o SetToSeq(S \ {Min(S)})

(***************************************************************************)
(* Graph<CpuNode>: succs_ and preds_ over operations 0..n-1, start_ = 0.   *)
(* preds_ is the reverse of succs_ (the class keeps both maps in step).    *)
(***************************************************************************)
start_ == 0

Ops(gr) == 0 .. gr.n - 1

Succs(gr, u) == gr.succs_[u]

Preds(gr, v) == {u \in Ops(gr) : v \in gr.succs_[u]}

\* acyclic graphs in which start_ has no predecessor and every other
\* operation has one (so every operation is reachable from start_)
GraphsUpTo(m) ==
    UNION { { [n |-> k, succs_ |-> s] :
                s \in { f \in [0 .. k - 1 -> SUBSET (1 .. k - 1)] :
                          /\ \A u \in 0 .. k - 1 : \A v \in f[u] : u < v
                          /\ \A v \in 1 .. k - 1 : \E u \in 0 .. k - 1 : v \in f[u] } }
            : k \in 1 .. m }

Graphs == GraphsUpTo(MaxOps)

(***************************************************************************)
(* Node<Strategy>.  A node is keyed by its position in the tree (the       *)
(* sequence of operations from the root); parent_ holds the key of the     *)
(* parent, Null for the root; children_ holds the keys of the children in  *)
(* vector order.  times is the size of state_.times.                       *)
(***************************************************************************)
Null == <<>>

Root == <<start_>>

NewNode(op) ==
    [parent_ |-> Null, children_ |-> <<>>, op_ |-> op, expanded_ |-> FALSE,
     fullyVisited_ |-> FALSE, n_ |-> 0, times |-> 0]

is_terminal(gr, t, p) == Succs(gr, t[p].op_) = {}

is_leaf(t, p) ==
    \/ t[p].children_ = <<>>
    \/ \E i \in DOMAIN t[p].children_ : t[t[p].children_[i]].times = 0

\* the walk over parent_ that collects op_ (node first, root last)
RECURSIVE PathToRoot(_, _)
PathToRoot(t, p) ==
    IF p = Null THEN <<>> ELSE <<t[p].op_>> \o PathToRoot(t, t[p].parent_)

(***************************************************************************)
(* select: the UCT value of a child is exploit + explore.  exploit comes   *)
(* from the strategy and the measured times, any finite value; explore is  *)
(* -infinity for a fully visited child.  A UCT vector is therefore any     *)
(* assignment of a finite level to the children that are not fully visited *)
(* and NegInf to the others.                                               *)
(***************************************************************************)
NegInf == -1

\* mutant: a fully visited child keeps a finite UCT value
UctVectorsNoPenalty(t, p) == [DOMAIN t[p].children_ -> 0 .. UctLevels - 1]

UctVectors(t, p) ==
    { u \in [DOMAIN t[p].children_ -> {NegInf} \cup (0 .. UctLevels - 1)] :
        \A i \in DOMAIN u :
            (u[i] = NegInf) <=> t[t[p].children_[i]].fullyVisited_ }

\* argmax(ucts) and the indices that tie with it
Choices(ucts) == {i \in DOMAIN ucts : \A j \in DOMAIN ucts : ucts[j] <= ucts[i]}

\* mutant: select returns the node it is called on
selectNoDescent(gr, t, p) == {p}

RECURSIVE select(_, _, _)
select(gr, t, p) ==
    IF is_leaf(t, p) \/ is_terminal(gr, t, p)
    THEN {p}
    ELSE UNION { UNION { select(gr, t, t[p].children_[im]) : im \in Choices(u) }
                 : u \in UctVectors(t, p) }

(***************************************************************************)
(* expand                                                                  *)
(***************************************************************************)
RECURSIVE PushUnique(_, _)
PushUnique(frontier, todo) ==
    IF todo = <<>> THEN frontier
    ELSE PushUnique(IF InSeq(frontier, Head(todo)) THEN frontier
                    ELSE Append(frontier, Head(todo)), Tail(todo))

RECURSIVE SuccsOfPath(_, _, _)
SuccsOfPath(gr, path, frontier) ==
    IF path = <<>> THEN frontier
    ELSE SuccsOfPath(gr, Tail(path),
                     PushUnique(frontier, SetToSeq(Succs(gr, Head(path)))))

\* mutant: operations that miss a predecessor stay in the frontier
ExpandFrontierNoPredCheck(gr, path) ==
    LET all == SuccsOfPath(gr, path, <<>>)
        NotDone(c) == ~InSeq(path, c)
    IN  SelectSeq(all, NotDone)

\* the frontier of expand: the successors of the path, each once, without
\* the operations of the path and without those missing a predecessor
ExpandFrontier(gr, path) ==
    LET all == SuccsOfPath(gr, path, <<>>)
        NotDone(c) == ~InSeq(path, c)
        PredsDone(c) == \A pr \in Preds(gr, c) : InSeq(path, pr)
    IN  SelectSeq(SelectSeq(all, NotDone), PredsDone)

ChildKey(p, op) == Append(p, op)

\* the tree after the child-creating part of expand on node p
\* mutant: every new node gets the root as its parent_
ExpandChildrenParentRoot(gr, t, p) ==
    IF t[p].expanded_ THEN t
    ELSE LET frontier == ExpandFrontier(gr, PathToRoot(t, p))
             keys == [i \in DOMAIN frontier |-> ChildKey(p, frontier[i])]
             new == {keys[i] : i \in DOMAIN keys}
         IN  [q \in DOMAIN t \cup new |->
                IF q = p THEN [t[p] EXCEPT !.children_ = t[p].children_ \o keys,
                                           !.expanded_ = TRUE]
                ELSE IF q \in DOMAIN t THEN t[q]
                ELSE [NewNode(q[Len(q)]) EXCEPT !.parent_ = Root]]

ExpandChildren(gr, t, p) ==
    IF t[p].expanded_ THEN t
    ELSE LET frontier == ExpandFrontier(gr, PathToRoot(t, p))
             keys == [i \in DOMAIN frontier |-> ChildKey(p, frontier[i])]
             new == {keys[i] : i \in DOMAIN keys}
         IN  [q \in DOMAIN t \cup new |->
                IF q = p THEN [t[p] EXCEPT !.children_ = t[p].children_ \o keys,
                                           !.expanded_ = TRUE]
                ELSE IF q \in DOMAIN t THEN t[q]
                ELSE [NewNode(q[Len(q)]) EXCEPT !.parent_ = p]]

Unreachable == <<-1>>

\* mutant: the last unplayed child is returned
ExpandReturnLastUnplayed(t, p) ==
    IF t[p].children_ = <<>> THEN p
    ELSE LET unplayed == {i \in DOMAIN t[p].children_ : t[t[p].children_[i]].times = 0}
         IN  IF unplayed = {} THEN Unreachable
             ELSE t[p].children_[CHOOSE i \in unplayed : \A j \in unplayed : j <= i]

\* the node expand returns; Unreachable when it throws "unreachable"
ExpandReturn(t, p) ==
    IF t[p].children_ = <<>> THEN p
    ELSE LET unplayed == {i \in DOMAIN t[p].children_ : t[t[p].children_[i]].times = 0}
         IN  IF unplayed = {} THEN Unreachable
             ELSE t[p].children_[Min(unplayed)]

(***************************************************************************)
(* get_simulation_order                                                    *)
(***************************************************************************)
\* mutant: a successor enters the frontier without the check of its
\* predecessors
RECURSIVE PushReadyNoPreds(_, _, _, _)
PushReadyNoPreds(gr, path, frontier, todo) ==
    IF todo = <<>> THEN frontier
    ELSE LET c == Head(todo)
             unique == ~InSeq(frontier, c)
             notDone == ~InSeq(path, c)
         IN  PushReadyNoPreds(gr, path,
                              IF unique /\ notDone THEN Append(frontier, c)
                              ELSE frontier,
                              Tail(todo))

RECURSIVE PushReady(_, _, _, _)
PushReady(gr, path, frontier, todo) ==
    IF todo = <<>> THEN frontier
    ELSE LET c == Head(todo)
             unique == ~InSeq(frontier, c)
             notDone == ~InSeq(path, c)
             predsDone == \A pr \in Preds(gr, c) : InSeq(path, pr)
         IN  PushReady(gr, path,
                       IF unique /\ notDone /\ predsDone THEN Append(frontier, c)
                       ELSE frontier,
                       Tail(todo))

RECURSIVE InitialFrontier(_, _, _, _)
InitialFrontier(gr, path, rest, frontier) ==
    IF rest = <<>> THEN frontier
    ELSE InitialFrontier(gr, path, Tail(rest),
                         PushReady(gr, path, frontier, SetToSeq(Succs(gr, Head(rest)))))

\* one pass of the "random path" loop with rand() % size = ii - 1
RandomStep(gr, path, frontier, ii) ==
    LET op == frontier[ii]
        path2 == Append(path, op)
        fr2 == PushReady(gr, path2, frontier, SetToSeq(Succs(gr, op)))
    IN  <<path2, RemoveAt(fr2, ii)>>

\* mutant: the loop ends after one operation
RandomPathOneStep(gr, path, frontier) ==
    IF frontier = <<>> THEN {path}
    ELSE { RandomStep(gr, path, frontier, ii)[1] : ii \in 1 .. Len(frontier) }

RECURSIVE RandomPath(_, _, _)
RandomPath(gr, path, frontier) ==
    IF frontier = <<>> THEN {path}
    ELSE UNION { LET s == RandomStep(gr, path, frontier, ii)
                 IN  RandomPath(gr, s[1], s[2]) : ii \in 1 .. Len(frontier) }

\* every ordering get_simulation_order can return at node p
get_simulation_order(gr, t, p) ==
    LET path == Reverse(PathToRoot(t, p))
    IN  RandomPath(gr, path, InitialFrontier(gr, path, path, <<>>))

(***************************************************************************)
(* backprop                                                                *)
(***************************************************************************)
\* mutant: the strategy records no time
StrategyBackpropNoInsert(node) == node

\* Strategy::backprop inserts one time into the node's state_.times
StrategyBackprop(node) == [node EXCEPT !.times = node.times + 1]

\* mutant: a childless node is marked without looking at expanded_
BackpropFlagNoExpandCheck(t, p) ==
    IF t[p].children_ = <<>>
    THEN TRUE
    ELSE IF \A i \in DOMAIN t[p].children_ : t[t[p].children_[i]].fullyVisited_
         THEN TRUE ELSE t[p].fullyVisited_

\* the fullyVisited_ flag of node p after the visit
BackpropFlag(t, p) ==
    IF t[p].children_ = <<>>
    THEN IF t[p].expanded_ THEN t[p].expanded_ ELSE t[p].fullyVisited_
    ELSE IF \A i \in DOMAIN t[p].children_ : t[t[p].children_[i]].fullyVisited_
         THEN TRUE ELSE t[p].fullyVisited_

BackpropNode(t, p) ==
    [t EXCEPT ![p] = StrategyBackprop([t[p] EXCEPT !.n_ = t[p].n_ + 1,
                                                   !.fullyVisited_ = BackpropFlag(t, p)])]

\* mutant: a visit clears the flag of the other children of the parent
RECURSIVE backpropResetsSiblings(_, _)
backpropResetsSiblings(t, p) ==
    LET t1 == BackpropNode(t, p)
        par == t1[p].parent_
        t2 == [q \in DOMAIN t1 |->
                 IF q # p /\ q # Root /\ t1[q].parent_ = par
                 THEN [t1[q] EXCEPT !.fullyVisited_ = FALSE] ELSE t1[q]]
    IN  IF par # Null THEN backpropResetsSiblings(t2, par) ELSE t1

\* mutant: the walk up the tree stops below the root
RECURSIVE backpropStopsBelowRoot(_, _)
backpropStopsBelowRoot(t, p) ==
    LET t1 == BackpropNode(t, p)
    IN  IF t1[p].parent_ # Null /\ t1[p].parent_ # Root
        THEN backpropStopsBelowRoot(t1, t1[p].parent_) ELSE t1

RECURSIVE backprop(_, _)
backprop(t, p) ==
    LET t1 == BackpropNode(t, p)
    IN  IF t1[p].parent_ # Null THEN backprop(t1, t1[p].parent_) ELSE t1

(***************************************************************************)
(* The driver: one iteration is select, expand, get_simulation_order,      *)
(* backprop; it stops when the budget is exhausted or the root is fully    *)
(* visited.                                                                *)
(***************************************************************************)
Init ==
    /\ g \in Graphs
    /\ tree = (Root :> NewNode(start_))
    /\ pc = "select"
    /\ selected = Null
    /\ child = Null
    /\ order = <<>>
    /\ iter = 0
    /\ twin = <<>>
    /\ pool = <<>>
    /\ cmp = <<>>
    /\ fg = [n |-> 0]
    /\ completed = <<>>
    /\ plat = [streams_ |-> 0]
    /\ ret = <<>>
    /\ issued = <<>>
    /\ ensured = FALSE
    /\ ranks = <<>>
    /\ chan = <<>>
    /\ bcastOrders = <<>>

\* mutant: the driver does not look at the root's flag
SelectIgnoresFullyVisited ==
    /\ pc = "select"
    /\ iter < MaxIters
    /\ \E s \in select(g, tree, Root) : selected' = s
    /\ pc' = "expand"
    /\ UNCHANGED <<g, tree, child, order, iter>>
    /\ UNCHANGED <<frontierVars, bcastVars>>

Select ==
    /\ pc = "select"
    /\ iter < MaxIters
    /\ ~tree[Root].fullyVisited_
    /\ \E s \in select(g, tree, Root) : selected' = s
    /\ pc' = "expand"
    /\ UNCHANGED <<g, tree, child, order, iter>>
    /\ UNCHANGED <<frontierVars, bcastVars>>

Expand ==
    /\ pc = "expand"
    /\ LET t1 == ExpandChildren(g, tree, selected)
           c == ExpandReturn(t1, selected)
       IN  /\ tree' = t1
           /\ child' = c
           /\ pc' = IF c = Unreachable THEN "abort" ELSE "simulate"
    /\ UNCHANGED <<g, selected, order, iter>>
    /\ UNCHANGED <<frontierVars, bcastVars>>

Simulate ==
    /\ pc = "simulate"
    /\ \E o \in get_simulation_order(g, tree, child) : order' = o
    /\ pc' = "backprop"
    /\ UNCHANGED <<g, tree, selected, child, iter>>
    /\ UNCHANGED <<frontierVars, bcastVars>>

Backprop ==
    /\ pc = "backprop"
    /\ tree' = backprop(tree, child)
    /\ iter' = iter + 1
    /\ pc' = "select"
    /\ UNCHANGED <<g, selected, child, order>>
    /\ UNCHANGED <<frontierVars, bcastVars>>

Next == Select \/ Expand \/ Simulate \/ Backprop

Spec == Init /\ [][Next]_vars

(***************************************************************************)
(* Properties of the tree driver.                                          *)
(***************************************************************************)
IsPrefix(a, b) == Len(a) <= Len(b) /\ SubSeq(b, 1, Len(a)) = a

\* s holds operations of gr, each at most once, each after its predecessors
TopologicallySorted(gr, s) ==
    /\ \A i \in DOMAIN s : s[i] \in Ops(gr)
    /\ \A i, j \in DOMAIN s : s[i] = s[j] => i = j
    /\ \A i \in DOMAIN s : \A pr \in Preds(gr, s[i]) :
           \E j \in 1 .. i - 1 : s[j] = pr

\* C1: at every node of a tree the driver can build, every list
\* get_simulation_order can return holds each operation of the graph at most
\* once and after all of its predecessors; so does the list the driver holds.
C1_PlayoutTopologicalSort ==
    /\ \A p \in DOMAIN tree : \A o \in get_simulation_order(g, tree, p) :
           TopologicallySorted(g, o)
    /\ pc = "backprop" => TopologicallySorted(g, order)

\* a playout of a four-operation graph with a join that is not in the
\* operations' own order
C1_Witness ==
    /\ pc = "backprop"
    /\ Len(order) = 4
    /\ \E v \in Ops(g) : Cardinality(Preds(g, v)) >= 2
    /\ \E i \in 1 .. 3 : order[i] > order[i + 1]

\* C7: no step of the driver takes a node's fullyVisited_ from true to false.
C7_FullyVisitedMonotone ==
    [][\A p \in DOMAIN tree :
          tree[p].fullyVisited_ => (p \in DOMAIN tree' /\ tree'[p].fullyVisited_)]_vars

\* a node is fully visited, and the last backprop (from child) ran after
\* that without passing through it
C7_Witness ==
    /\ pc = "select"
    /\ iter > 0
    /\ \E p \in DOMAIN tree :
          /\ tree[p].fullyVisited_
          /\ ~IsPrefix(p, child)
          /\ ~tree[Root].fullyVisited_

Subtree(t, p) == {q \in DOMAIN t : IsPrefix(p, q)}

\* C8: below a fully visited node every node is expanded, and every
\* childless node has an empty frontier and a path that holds every
\* operation of the graph.
C8_FullyVisitedExplored ==
    \A p \in DOMAIN tree :
        tree[p].fullyVisited_ =>
            \A q \in Subtree(tree, p) :
                /\ tree[q].expanded_
                /\ tree[q].children_ = <<>> =>
                       /\ ExpandFrontier(g, PathToRoot(tree, q)) = <<>>
                       /\ \A v \in Ops(g) : InSeq(PathToRoot(tree, q), v)

\* a fully visited node with a subtree below it
C8_Witness ==
    \E p \in DOMAIN tree :
        /\ tree[p].fullyVisited_
        /\ Cardinality(Subtree(tree, p)) >= 3

\* the graph of scenario S3: start_ has exactly two successors and neither
\* has a successor
TwoLeafGraph(gr) ==
    /\ Cardinality(Succs(gr, start_)) = 2
    /\ \A v \in Succs(gr, start_) : Succs(gr, v) = {}

\* C9: on the two-leaf graph the root is fully visited after the second
\* iteration.
C9_TwoLeafRootFullyVisited ==
    (TwoLeafGraph(g) /\ iter = 2 /\ pc = "select") => tree[Root].fullyVisited_

(***************************************************************************)
(* Bound operations (include/sched/ops_cuda.hpp).  A BoundOp is a record    *)
(* with its variant in `type`; fields a variant lacks are None.             *)
(***************************************************************************)
None == -1

CpuOp(v) == [type |-> "cpu", op |-> v, stream |-> None, event |-> None, waiter |-> None]

BoundGpuOp(v, s) == [type |-> "gpu", op |-> v, stream |-> s, event |-> None, waiter |-> None]

CudaEventRecord(e, s) == [type |-> "CudaEventRecord", op |-> None, stream |-> s, event |-> e, waiter |-> None]

CudaStreamWaitEvent(s, e) == [type |-> "CudaStreamWaitEvent", op |-> None, stream |-> s, event |-> e, waiter |-> None]

CudaEventSync(e) == [type |-> "CudaEventSync", op |-> None, stream |-> None, event |-> e, waiter |-> None]

StreamSync(s) == [type |-> "StreamSync", op |-> None, stream |-> s, event |-> None, waiter |-> None]

StreamWait(waitee, waiter, e) == [type |-> "StreamWait", op |-> None, stream |-> waitee, event |-> e, waiter |-> waiter]

\* Irecv (include/sched/ops_mpi.hpp): args stands for the Args structure,
\* name for name_
Irecv(args, name) == [type |-> "Irecv", op |-> name, stream |-> None, event |-> None,
                      waiter |-> None, args |-> args]

\* a GpuOp not yet bound to a stream
GpuOp(v) == [type |-> "gpuop", op |-> v, stream |-> None, event |-> None, waiter |-> None]

IsSyncOp(b) == b.type \notin {"cpu", "gpu", "gpuop", "Irecv"}

\* name(): the constructors of the synchronization operations set a fixed
\* name; a BoundGpuOp has the name of its GpuOp, here the operation itself
OpName(b) ==
    CASE b.type = "CudaEventRecord" -> "CudaEventRecord-anon"
      [] b.type = "CudaStreamWaitEvent" -> "CudaStreamWaitEvent-anon"
      [] b.type = "CudaEventSync" -> "CudaEventSync-anon"
      [] b.type = "StreamSync" -> "streamsync-anon"
      [] b.type = "StreamWait" -> "StreamWait-anon"
      [] OTHER -> b.op

\* eq(): same variant and the variant's operator==
OpEq(a, b) ==
    /\ a.type = b.type
    /\ CASE a.type = "gpu" -> a.stream = b.stream /\ a.op = b.op
         [] a.type = "cpu" -> a.op = b.op
         [] a.type = "StreamSync" -> TRUE
         [] a.type = "Irecv" -> a.args = b.args
         [] OTHER -> OpName(a) = OpName(b)

(***************************************************************************)
(* Platform (include/sched/platform.hpp): streams_ counts the stream        *)
(* handles, the default stream included; cStreams_ and events_ count the    *)
(* physical streams and events; iEvent_ is the next id of new_event.        *)
(***************************************************************************)
NewPlatform == [streams_ |-> 1, cStreams_ |-> 1, events_ |-> 0, iEvent_ |-> 0]

num_streams(pl) == pl.streams_ - 1

\* new_stream that creates no physical stream
new_streamNoPhysical(pl) == [pl EXCEPT !.streams_ = pl.streams_ + 1]

\* the handle returned is Stream(pl.streams_), the size before the call
new_stream(pl) == [pl EXCEPT !.streams_ = pl.streams_ + 1,
                             !.cStreams_ = pl.cStreams_ + 1]

(***************************************************************************)
(* Graph<OpBase> and Sequence<BoundOp>.  A vertex of the graph is a CpuOp   *)
(* or an unbound GpuOp (kind "cpu" or "gpu").                               *)
(***************************************************************************)
SmallGraphs == GraphsUpTo(MaxSmallOps)

\* the diamond of scenario S2: A -> {B, C} -> D
Diamond == [n |-> 4, succs_ |-> (0 :> {1, 2} @@ 1 :> {3} @@ 2 :> {3} @@ 3 :> {})]

FrontierGraphs ==
    UNION { { [n |-> gr.n, succs_ |-> gr.succs_, kind |-> k] :
                k \in { f \in [Ops(gr) -> {"cpu", "gpu"}] : f[start_] = "cpu" } }
            : gr \in SmallGraphs \cup {Diamond} }

\* the graph vertex a completed operation stands for (None for an inserted
\* synchronization): the key succs_find_or_find_unbound finds
Vertex(b) == IF IsSyncOp(b) THEN None ELSE b.op

\* Sequence::contains_unbound for a vertex of the graph
contains_unbound(seq, v) == \E i \in DOMAIN seq : Vertex(seq[i]) = v

\* position in seq of the bound form of vertex v, 0 when absent
FindUnbound(seq, v) ==
    IF contains_unbound(seq, v)
    THEN CHOOSE i \in DOMAIN seq : Vertex(seq[i]) = v /\ \A j \in 1 .. i - 1 : Vertex(seq[j]) # v
    ELSE 0

(***************************************************************************)
(* EventSynchronizer                                                       *)
(***************************************************************************)
\* a record of event e on stream s after position ip, and after it a wait of
\* the kind the consumer v needs
RecordThenWait(seq, ip, s, v, e) ==
    \E i \in ip + 1 .. Len(seq) :
        /\ seq[i].type = "CudaEventRecord" /\ seq[i].stream = s /\ seq[i].event = e
        /\ \E j \in i + 1 .. Len(seq) :
              IF v.type = "gpu"
              THEN seq[j].type = "CudaStreamWaitEvent" /\ seq[j].stream = v.stream
                   /\ seq[j].event = e
              ELSE seq[j].type = "CudaEventSync" /\ seq[j].event = e

\* the events recorded on stream s after position ip
RecordedAfter(seq, ip, s) ==
    { seq[i].event : i \in { k \in ip + 1 .. Len(seq) :
                               seq[k].type = "CudaEventRecord" /\ seq[k].stream = s } }

\* mutant: a CPU predecessor needs a synchronization like a GPU one
PredSyncedCpuProducer(v, seq, p) ==
    LET ip == FindUnbound(seq, p)
    IN  /\ ip > 0
        /\ \/ seq[ip].type = "gpu" /\ v.type = "gpu" /\ seq[ip].stream = v.stream
           \/ \E e \in RecordedAfter(seq, ip, seq[ip].stream) :
                 RecordThenWait(seq, ip, seq[ip].stream, v, e)

\* whether predecessor vertex p of the bound operation v is synchronized
PredSynced(v, seq, p) ==
    LET ip == FindUnbound(seq, p)
    IN  /\ ip > 0
        /\ \/ seq[ip].type = "cpu"
           \/ seq[ip].type = "gpu" /\ v.type = "gpu" /\ seq[ip].stream = v.stream
           \/ /\ seq[ip].type = "gpu"
              /\ \/ \E e \in RecordedAfter(seq, ip, seq[ip].stream) :
                        RecordThenWait(seq, ip, seq[ip].stream, v, e)
                 \/ /\ v.type = "gpu"
                    /\ \E i \in ip + 1 .. Len(seq) :
                          seq[i].type = "StreamWait" /\ seq[i].stream = seq[ip].stream
                          /\ seq[i].waiter = v.stream
                 \/ /\ v.type = "cpu"
                    /\ \E i \in ip + 1 .. Len(seq) :
                          seq[i].type = "StreamSync" /\ seq[i].stream = seq[ip].stream

is_synced(v, gr, seq) == \A p \in Preds(gr, v.op) : PredSynced(v, seq, p)

UsedEvents(seq) == { seq[i].event : i \in DOMAIN seq } \ {None}

\* the k-th lowest event no operation of seq uses (k = 1, 2, ...)
RECURSIVE FreshEvent(_, _)
FreshEvent(used, k) ==
    LET e == Min({ x \in 0 .. Cardinality(used) : x \notin used })
    IN  IF k = 1 THEN e ELSE FreshEvent(used \cup {e}, k - 1)

WaitFor(v, e) == IF v.type = "gpu" THEN CudaStreamWaitEvent(v.stream, e) ELSE CudaEventSync(e)

\* the synchronizations for the predecessors in todo; nfresh counts the
\* events allocated so far in this call
RECURSIVE SyncsFor(_, _, _, _)
SyncsFor(v, seq, todo, nfresh) ==
    IF todo = <<>> THEN <<>>
    ELSE LET p == Head(todo)
             ip == FindUnbound(seq, p)
         IN  IF ip = 0 \/ PredSynced(v, seq, p)
             THEN SyncsFor(v, seq, Tail(todo), nfresh)
             ELSE LET rec == RecordedAfter(seq, ip, seq[ip].stream)
                  IN  IF rec # {}
                      THEN <<WaitFor(v, Min(rec))>> \o SyncsFor(v, seq, Tail(todo), nfresh)
                      ELSE LET e == FreshEvent(UsedEvents(seq), nfresh + 1)
                           IN  <<CudaEventRecord(e, seq[ip].stream), WaitFor(v, e)>>
                                   \o SyncsFor(v, seq, Tail(todo), nfresh + 1)

make_syncs(v, gr, seq) == SyncsFor(v, seq, SetToSeq(Preds(gr, v.op)), 0)

(***************************************************************************)
(* get_frontier (src/mcts_node.cpp)                                        *)
(***************************************************************************)
RECURSIVE OnePredCompleted(_, _, _)
OnePredCompleted(gr, seq, acc) ==
    IF seq = <<>> THEN acc
    ELSE OnePredCompleted(gr, Tail(seq),
            IF Vertex(Head(seq)) = None THEN acc
            ELSE PushUnique(acc, SetToSeq(Succs(gr, Vertex(Head(seq))))))

\* mutant: operations already done are not rejected
CandidatesKeepDone(gr, seq) ==
    LET AllPredsCompleted(c) == \A pr \in Preds(gr, c) : contains_unbound(seq, pr)
    IN  SelectSeq(OnePredCompleted(gr, seq, <<>>), AllPredsCompleted)

Candidates(gr, seq) ==
    LET NotDone(c) == ~contains_unbound(seq, c)
        AllPredsCompleted(c) == \A pr \in Preds(gr, c) : contains_unbound(seq, pr)
    IN  SelectSeq(SelectSeq(OnePredCompleted(gr, seq, <<>>), NotDone), AllPredsCompleted)

\* mutant: a stream is allocated whatever the platform holds
make_platform_variationsNoBudget(pl, gr, c) ==
    IF gr.kind[c] = "cpu" THEN <<<<CpuOp(c)>>, pl>>
    ELSE LET pl2 == new_stream(pl)
         IN  <<[i \in 1 .. pl2.streams_ |-> BoundGpuOp(c, i - 1)], pl2>>

\* make_platform_variations: <<variations, platform after the call>>
make_platform_variations(pl, gr, c) ==
    IF gr.kind[c] = "cpu" THEN <<<<CpuOp(c)>>, pl>>
    ELSE LET pl2 == IF num_streams(pl) < StreamBudget THEN new_stream(pl) ELSE pl
         IN  <<[i \in 1 .. pl2.streams_ |-> BoundGpuOp(c, i - 1)], pl2>>

\* mutant: a variation enters the frontier whether it is synced or not
EmitNoSyncCheck(gr, seq, bounds) == bounds

\* what the variations of one candidate add to the frontier
RECURSIVE Emit(_, _, _)
Emit(gr, seq, bounds) ==
    IF bounds = <<>> THEN <<>>
    ELSE (IF is_synced(Head(bounds), gr, seq) THEN <<Head(bounds)>>
          ELSE make_syncs(Head(bounds), gr, seq))
         \o Emit(gr, seq, Tail(bounds))

\* keep_uniques: the first of every class of equal operations
RECURSIVE keep_uniques(_)
keep_uniques(seq) ==
    IF seq = <<>> THEN <<>>
    ELSE LET rest == keep_uniques(SubSeq(seq, 1, Len(seq) - 1))
             last == seq[Len(seq)]
         IN  IF \E i \in DOMAIN rest : OpEq(rest[i], last) THEN rest
             ELSE Append(rest, last)

\* the loop over the candidates: <<frontier before keep_uniques, platform>>
RECURSIVE GenerateFrontier(_, _, _, _)
GenerateFrontier(pl, gr, seq, cands) ==
    IF cands = <<>> THEN <<<<>>, pl>>
    ELSE LET var == make_platform_variations(pl, gr, Head(cands))
             rest == GenerateFrontier(var[2], gr, seq, Tail(cands))
         IN  <<Emit(gr, seq, var[1]) \o rest[1], rest[2]>>

\* get_frontier: <<frontier, platform after the call>>
get_frontier(pl, gr, seq) ==
    LET r == GenerateFrontier(pl, gr, seq, Candidates(gr, seq))
    IN  <<keep_uniques(r[1]), r[2]>>

\* mutant: the synchronizations are returned for an operation that is synced
get_syncs_before_opInverted(gr, seq, op) ==
    IF is_synced(op, gr, seq) THEN make_syncs(op, gr, seq) ELSE <<>>

get_syncs_before_op(gr, seq, op) ==
    IF is_synced(op, gr, seq) THEN <<>> ELSE make_syncs(op, gr, seq)

(***************************************************************************)
(* Building a schedule: a caller holds a completed sequence, empty or with  *)
(* the start operation, and appends one element of its frontier at a time.  *)
(***************************************************************************)
NumSyncs(seq) == Cardinality({i \in DOMAIN seq : IsSyncOp(seq[i])})

FrontierInit ==
    /\ fg \in FrontierGraphs
    /\ completed \in {<<>>, <<CpuOp(start_)>>}
    /\ plat = NewPlatform
    /\ ret = <<>>
    /\ issued = <<>>
    /\ ensured = FALSE
    /\ g = [n |-> 0]
    /\ tree = <<>>
    /\ pc = "frontier"
    /\ selected = Null
    /\ child = Null
    /\ order = <<>>
    /\ iter = 0
    /\ twin = <<>>
    /\ pool = <<>>
    /\ cmp = <<>>
    /\ ranks = <<>>
    /\ chan = <<>>
    /\ bcastOrders = <<>>

AppendFromFrontier ==
    /\ pc = "frontier"
    /\ LET r == get_frontier(plat, fg, completed)
       IN  /\ \E i \in DOMAIN r[1] :
                 /\ IsSyncOp(r[1][i]) => NumSyncs(completed) < MaxSyncs
                 /\ completed' = Append(completed, r[1][i])
           /\ plat' = r[2]
    /\ UNCHANGED <<fg, pc, ret, issued, ensured, twin, pool, cmp>>
    /\ UNCHANGED <<g, tree, selected, child, order, iter>>
    /\ UNCHANGED bcastVars

FrontierNext == AppendFromFrontier

FrontierSpec == FrontierInit /\ [][FrontierNext]_vars

(***************************************************************************)
(* Properties of get_frontier and of the schedules built from it.          *)
(***************************************************************************)
Frontier == get_frontier(plat, fg, completed)[1]

Complete(gr, seq) == \A v \in Ops(gr) : contains_unbound(seq, v)

\* C2: an element of the frontier is a synchronization, or an operation not
\* yet in the completed sequence whose predecessors are all in it and that
\* is synced.
C2_FrontierLegality ==
    \A i \in DOMAIN Frontier :
        LET v == Frontier[i]
        IN  \/ IsSyncOp(v)
            \/ /\ ~contains_unbound(completed, v.op)
               /\ \A pr \in Preds(fg, v.op) : contains_unbound(completed, pr)
               /\ is_synced(v, fg, completed)

\* the frontier offers an operation that synchronizations made eligible
C2_Witness ==
    \E i \in DOMAIN Frontier :
        /\ ~IsSyncOp(Frontier[i])
        /\ NumSyncs(completed) >= 2
        /\ \E pr \in Preds(fg, Frontier[i].op) :
              LET b == completed[FindUnbound(completed, pr)]
              IN  b.type = "gpu" /\ b.stream # Frontier[i].stream

\* C3: the frontier of a sequence that is not complete is not empty, and the
\* frontier of the empty sequence is the start operation alone.
C3_FrontierCompleteness ==
    /\ ~Complete(fg, completed) => Frontier # <<>>
    /\ completed = <<>> => Frontier = <<CpuOp(start_)>>

\* C4: the frontier is empty exactly when every operation is completed.
C4_EmptyIffComplete == (Frontier = <<>>) <=> Complete(fg, completed)

\* a record on stream s and then a wait for the consumer v, both strictly
\* between positions iu and iv of seq
SyncBetween(seq, iu, iv, s, v) ==
    \E i \in iu + 1 .. iv - 1 : \E j \in i + 1 .. iv - 1 :
        /\ seq[i].type = "CudaEventRecord" /\ seq[i].stream = s
        /\ \/ seq[j].type = "CudaStreamWaitEvent" /\ seq[j].stream = v.stream
              /\ seq[j].event = seq[i].event
           \/ v.type = "cpu" /\ seq[j].type = "CudaEventSync"
              /\ seq[j].event = seq[i].event

\* any synchronization of the two kinds between positions iu and iv
AnySyncBetween(seq, iu, iv) ==
    \E j \in iu + 1 .. iv - 1 :
        seq[j].type \in {"CudaStreamWaitEvent", "CudaEventSync", "StreamSync", "StreamWait"}

\* the edges of the graph with both ends in the completed sequence
CompletedEdges ==
    { e \in Ops(fg) \X Ops(fg) :
        /\ e[2] \in Succs(fg, e[1])
        /\ contains_unbound(completed, e[1])
        /\ contains_unbound(completed, e[2]) }

SameResource(a, b) == a.type = b.type /\ a.stream = b.stream

\* C5 as stated: a synchronization lies between the two ends of every edge
\* whose ends are bound to different resources.
C5_EveryCrossResourceEdgeSynced ==
    \A e \in CompletedEdges :
        LET iu == FindUnbound(completed, e[1])
            iv == FindUnbound(completed, e[2])
        IN  ~SameResource(completed[iu], completed[iv]) =>
                AnySyncBetween(completed, iu, iv)

\* C5, amended: for every edge whose producer is bound to a stream and whose
\* consumer is bound to another stream or is a CPU operation, a record on
\* the producer's stream and then the consumer's wait for that event lie
\* between the two.
C5_GpuProducerEdgeSynced ==
    \A e \in CompletedEdges :
        LET iu == FindUnbound(completed, e[1])
            iv == FindUnbound(completed, e[2])
        IN  (completed[iu].type = "gpu" /\ ~SameResource(completed[iu], completed[iv])) =>
                /\ iu < iv
                /\ SyncBetween(completed, iu, iv, completed[iu].stream, completed[iv])

\* a complete schedule with two edges whose producers run on different
\* streams and whose consumer is on neither producer's resource
C5_Witness ==
    /\ Complete(fg, completed)
    /\ \E e1 \in CompletedEdges : \E e2 \in CompletedEdges :
          LET u1 == completed[FindUnbound(completed, e1[1])]
              u2 == completed[FindUnbound(completed, e2[1])]
              v1 == completed[FindUnbound(completed, e1[2])]
              v2 == completed[FindUnbound(completed, e2[2])]
          IN  /\ u1.type = "gpu" /\ u2.type = "gpu" /\ u1.stream # u2.stream
              /\ ~SameResource(u1, v1) /\ ~SameResource(u2, v2)

\* the bound forms of the vertices whose predecessors are all completed
BoundForms ==
    UNION { IF fg.kind[c] = "cpu" THEN {CpuOp(c)}
            ELSE {BoundGpuOp(c, st) : st \in 0 .. StreamBudget}
            : c \in {v \in Ops(fg) : \A pr \in Preds(fg, v) : contains_unbound(completed, pr)} }

\* C6: appending the synchronizations computed for v makes v synced, and
\* none is computed for v after that.
C6_SyncIdempotence ==
    \A v \in BoundForms :
        LET after == completed \o get_syncs_before_op(fg, completed, v)
        IN  /\ is_synced(v, fg, after)
            /\ get_syncs_before_op(fg, after, v) = <<>>
            /\ make_syncs(v, fg, after) = <<>>

\* an operation with two unsynced predecessors, one of them with a record
C6_Witness ==
    \E v \in BoundForms :
        /\ ~is_synced(v, fg, completed)
        /\ Len(get_syncs_before_op(fg, completed, v)) = 3

(***************************************************************************)
(* mcts() of src/mcts.cpp: every rank runs the loop; rank 0 searches and   *)
(* the ordering it finds is broadcast by name.  The Node of src/mcts.cpp   *)
(* has the fields of the model's nodes but fullyVisited_ and n_; times is  *)
(* the size of times_, which stays 0 because the driver never calls        *)
(* backprop.                                                               *)
(***************************************************************************)
\* iterations of the loop of mcts()
McIters == 10

Ranks == 0 .. NumRanks - 1

Receivers == Ranks \ {0}

\* the name of an operation, a string of characters; the names of the
\* operations of a graph are distinct: 0 is "s", then "a", "ab", "aa", ...
name(v) ==
    IF v = 0 THEN <<"s">>
    ELSE IF v % 2 = 1 THEN [k \in 1 .. (v + 1) \div 2 |-> "a"]
    ELSE [k \in 1 .. v \div 2 |-> "a"] \o <<"b">>

\* the orders in which the keys of g.succs_ can be iterated
KeyOrders(gr) == {SetToSeq(Ops(gr)), Reverse(SetToSeq(Ops(gr)))}

\* select of src/mcts.cpp: a child that was never played has an infinite
\* UCT value and makes its parent a leaf; otherwise the values are finite
\* and any child can be the argmax
RECURSIVE mcts_select(_, _, _)
mcts_select(gr, t, p) ==
    IF is_leaf(t, p) \/ is_terminal(gr, t, p)
    THEN {p}
    ELSE UNION { mcts_select(gr, t, t[p].children_[im]) : im \in DOMAIN t[p].children_ }

\* the successors of the operations of path, one copy for each edge
RECURSIVE AllSuccs(_, _)
AllSuccs(gr, path) ==
    IF path = <<>> THEN <<>>
    ELSE SetToSeq(Succs(gr, Head(path))) \o AllSuccs(gr, Tail(path))

\* the frontier built by expand of src/mcts.cpp
mcts_frontier(gr, path) ==
    LET NotDone(op) == ~InSeq(path, op)
        PredsDone(op) == \A pr \in Preds(gr, op) : InSeq(path, pr)
    IN  SelectSeq(SelectSeq(AllSuccs(gr, path), NotDone), PredsDone)

\* the tree after expand of src/mcts.cpp on node p
mcts_expand(gr, t, p) ==
    IF is_terminal(gr, t, p) \/ t[p].expanded_ THEN t
    ELSE LET frontier == mcts_frontier(gr, PathToRoot(t, p))
             keys == [i \in DOMAIN frontier |-> ChildKey(p, frontier[i])]
             new == {keys[i] : i \in DOMAIN keys}
         IN  [q \in DOMAIN t \cup new |->
                IF q = p THEN [t[p] EXCEPT !.children_ = t[p].children_ \o keys,
                                           !.expanded_ = TRUE]
                ELSE IF q \in DOMAIN t THEN t[q]
                ELSE [NewNode(q[Len(q)]) EXCEPT !.parent_ = p]]

\* the node expand of src/mcts.cpp returns
mcts_expand_return(gr, t, p) ==
    IF is_terminal(gr, t, p) THEN p ELSE ExpandReturn(t, p)

(***************************************************************************)
(* mpi_bcast                                                               *)
(***************************************************************************)
RECURSIVE Sum(_)
Sum(s) == IF s = <<>> THEN 0 ELSE Head(s) + Sum(Tail(s))

NameLengths(ord) == [k \in DOMAIN ord |-> Len(name(ord[k]))]

\* the characters of the names of ord, one name after the other
RECURSIVE AllNames(_)
AllNames(ord) == IF ord = <<>> THEN <<>> ELSE name(Head(ord)) \o AllNames(Tail(ord))

\* break allNames into strings, off being the offset of the next one
RECURSIVE SplitNames(_, _, _)
SplitNames(allNames, nameLengths, off) ==
    IF nameLengths = <<>> THEN <<>>
    ELSE <<SubSeq(allNames, off + 1, off + Head(nameLengths))>>
         \o SplitNames(allNames, Tail(nameLengths), off + Head(nameLengths))

\* the first index of ord whose operation has the name nm, 0 if there is none
FindByName(ord, nm) ==
    LET found == {oi \in DOMAIN ord : name(ord[oi]) = nm}
    IN  IF found = {} THEN 0 ELSE Min(found)

\* mutant: the local list is kept as it is
PositionsKeepLocal(ord, names) == [k \in DOMAIN names |-> k]

\* the positions in ord of the names received
Positions(ord, names) == [k \in DOMAIN names |-> FindByName(ord, names[k])]

\* a start operation with three independent successors
Fan == [n |-> 4, succs_ |-> (0 :> {1, 2, 3} @@ 1 :> {} @@ 2 :> {} @@ 3 :> {})]

\* every rank constructs the root node; the tree of rank 0 is the variable
\* tree, the tree of another rank is the field tree of its record
BcastInit ==
    /\ g \in SmallGraphs \cup {Diamond, Fan}
    /\ tree = (Root :> NewNode(start_))
    /\ pc = "mcts"
    /\ selected = Null
    /\ child = Null
    /\ order = <<>>
    /\ iter = 0
    /\ twin = <<>>
    /\ pool = <<>>
    /\ cmp = <<>>
    /\ fg = [n |-> 0]
    /\ completed = <<>>
    /\ plat = [streams_ |-> 0]
    /\ ret = <<>>
    /\ issued = <<>>
    /\ ensured = FALSE
    /\ ranks = [r \in Ranks |-> [pc |-> "loop", i |-> 0, order |-> <<>>, orderSize |-> 0,
                                 nameLengths |-> <<>>, allNames |-> <<>>,
                                 tree |-> IF r = 0 THEN <<>>
                                          ELSE (Root :> NewNode(start_))]]
    /\ chan = [r \in Receivers |-> <<>>]
    /\ bcastOrders = <<>>

\* the history keeps the iterations some rank has not left behind
Live(h, rk) ==
    LET low == Min({rk[r].i : r \in Ranks}) - 1
    IN  [k \in {j \in DOMAIN h : j >= low} |-> h[k]]

\* the body of the loop up to the call of mpi_bcast
McIterate(r) ==
    /\ pc = "mcts"
    /\ ranks[r].pc = "loop"
    /\ ranks[r].i < McIters
    /\ IF r = 0
       THEN \E sel \in mcts_select(g, tree, Root) :
               LET t1 == mcts_expand(g, tree, sel)
                   c == mcts_expand_return(g, t1, sel)
               IN  /\ selected' = sel
                   /\ tree' = t1
                   /\ child' = c
                   /\ IF c = Unreachable
                      THEN /\ ranks' = [ranks EXCEPT ![r].pc = "abort"]
                           /\ UNCHANGED bcastOrders
                      ELSE \E o \in get_simulation_order(g, t1, c) :
                              /\ ranks' = [ranks EXCEPT ![r].order = o, ![r].pc = "count"]
                              /\ bcastOrders' = Live((ranks[r].i :> o) @@ bcastOrders, ranks)
       ELSE /\ \E ko \in KeyOrders(g) :
                  ranks' = [ranks EXCEPT ![r].order = ko, ![r].pc = "count"]
            /\ UNCHANGED <<tree, selected, child, bcastOrders>>
    /\ UNCHANGED <<g, pc, order, iter, chan>>
    /\ UNCHANGED frontierVars

\* MPI_Bcast on the root: the buffer goes to every receiver
BcastSend(buf) == [q \in Receivers |-> Append(chan[q], buf)]

CanSend == \A q \in Receivers : Len(chan[q]) < MaxInFlight

\* MPI_Bcast of one int, the number of operations
BcastCount(r) ==
    /\ pc = "mcts"
    /\ ranks[r].pc = "count"
    /\ IF r = 0
       THEN /\ CanSend
            /\ chan' = BcastSend(<<Len(ranks[r].order)>>)
            /\ ranks' = [ranks EXCEPT ![r].orderSize = Len(ranks[r].order),
                                      ![r].pc = "lengths"]
       ELSE /\ chan[r] # <<>>
            /\ chan' = [chan EXCEPT ![r] = Tail(chan[r])]
            /\ ranks' = [ranks EXCEPT ![r].orderSize = Head(chan[r])[1],
                                      ![r].pc = "lengths"]
    /\ UNCHANGED <<treeVars, frontierVars, bcastOrders>>

\* MPI_Bcast of the name lengths; the buffer has one int for each operation
\* of the local list, a receive of another count is undefined
BcastLengths(r) ==
    /\ pc = "mcts"
    /\ ranks[r].pc = "lengths"
    /\ LET nameLengths == NameLengths(ranks[r].order)
       IN  IF r = 0
           THEN /\ CanSend
                /\ chan' = BcastSend(nameLengths)
                /\ ranks' = [ranks EXCEPT ![r].nameLengths = nameLengths,
                                          ![r].pc = "names"]
           ELSE /\ chan[r] # <<>>
                /\ chan' = [chan EXCEPT ![r] = Tail(chan[r])]
                /\ ranks' = IF Len(Head(chan[r])) = Len(nameLengths)
                            THEN [ranks EXCEPT ![r].nameLengths = Head(chan[r]),
                                               ![r].pc = "names"]
                            ELSE [ranks EXCEPT ![r].pc = "undefined"]
    /\ UNCHANGED <<treeVars, frontierVars, bcastOrders>>

\* MPI_Bcast of the characters of the names
BcastNames(r) ==
    /\ pc = "mcts"
    /\ ranks[r].pc = "names"
    /\ LET totalLength == Sum(ranks[r].nameLengths)
       IN  IF r = 0
           THEN /\ CanSend
                /\ chan' = BcastSend(AllNames(ranks[r].order))
                /\ ranks' = [ranks EXCEPT ![r].allNames = AllNames(ranks[r].order),
                                          ![r].pc = "reorder"]
           ELSE /\ chan[r] # <<>>
                /\ chan' = [chan EXCEPT ![r] = Tail(chan[r])]
                /\ ranks' = IF Len(Head(chan[r])) = totalLength
                            THEN [ranks EXCEPT ![r].allNames = Head(chan[r]),
                                               ![r].pc = "reorder"]
                            ELSE [ranks EXCEPT ![r].pc = "undefined"]
    /\ UNCHANGED <<treeVars, frontierVars, bcastOrders>>

\* mutant: the operations found before the unknown name are installed
BcastReorderPartial(r) ==
    /\ pc = "mcts"
    /\ ranks[r].pc = "reorder"
    /\ LET names == SplitNames(ranks[r].allNames, ranks[r].nameLengths, 0)
           pos == Positions(ranks[r].order, names)
           found == SelectSeq(pos, LAMBDA x : x # 0)
           done == [ranks[r] EXCEPT !.pc = "loop", !.i = ranks[r].i + 1,
                                    !.orderSize = 0, !.nameLengths = <<>>,
                                    !.allNames = <<>>]
           perm == [k \in DOMAIN found |-> ranks[r].order[found[k]]]
       IN  ranks' = IF r = 0 THEN [ranks EXCEPT ![r] = done]
                    ELSE IF \E k \in DOMAIN pos : pos[k] = 0
                    THEN [ranks EXCEPT ![r].pc = "abort", ![r].order = perm]
                    ELSE [ranks EXCEPT ![r] = [done EXCEPT !.order = perm]]
    /\ bcastOrders' = Live(bcastOrders, ranks')
    /\ UNCHANGED <<treeVars, frontierVars, chan>>

\* the names are split; a receiver finds its operation for each name and
\* permutes its list; mpi_bcast returns and the iteration ends
BcastReorder(r) ==
    /\ pc = "mcts"
    /\ ranks[r].pc = "reorder"
    /\ LET names == SplitNames(ranks[r].allNames, ranks[r].nameLengths, 0)
           pos == Positions(ranks[r].order, names)
           done == [ranks[r] EXCEPT !.pc = "loop", !.i = ranks[r].i + 1,
                                    !.orderSize = 0, !.nameLengths = <<>>,
                                    !.allNames = <<>>]
       IN  ranks' = IF r = 0 THEN [ranks EXCEPT ![r] = done]
                    ELSE IF \E k \in DOMAIN pos : pos[k] = 0
                    THEN [ranks EXCEPT ![r].pc = "abort"]
                    ELSE [ranks EXCEPT ![r] =
                            [done EXCEPT !.order = [k \in DOMAIN pos |-> ranks[r].order[pos[k]]]]]
    /\ bcastOrders' = Live(bcastOrders, ranks')
    /\ UNCHANGED <<treeVars, frontierVars, chan>>

BcastNext ==
    \E r \in Ranks :
        McIterate(r) \/ BcastCount(r) \/ BcastLengths(r) \/ BcastNames(r) \/ BcastReorder(r)

BcastSpec == BcastInit /\ [][BcastNext]_vars

\* C10: when mpi_bcast has returned on a rank, the rank holds a list as long
\* as the list rank 0 broadcast in that iteration, with at every position
\* the operation of the same name (the same vertex of the graph, so on the
\* same stream); and mpi_bcast returns on every rank.
C10_BcastRoundTrip ==
    pc = "mcts" =>
        \A r \in Ranks :
            /\ ranks[r].pc \notin {"abort", "undefined"}
            /\ (ranks[r].pc = "loop" /\ ranks[r].i > 0) =>
                  LET sent == bcastOrders[ranks[r].i - 1]
                  IN  /\ Len(ranks[r].order) = Len(sent)
                      /\ \A k \in DOMAIN sent :
                            /\ name(ranks[r].order[k]) = name(sent[k])
                            /\ ranks[r].order[k] = sent[k]

\* a receiver has returned with a list that is neither of the key orders,
\* while rank 0 is already in a later iteration
C10_Witness ==
    /\ pc = "mcts"
    /\ \E r \in Receivers :
          /\ ranks[r].pc = "loop"
          /\ ranks[r].i > 0
          /\ ranks[r].order \notin KeyOrders(g)
          /\ Len(ranks[r].order) >= 4
          /\ ranks[0].i > ranks[r].i

(***************************************************************************)
(* mpi_bcast called with lists of the caller's choice: rank 0 holds any    *)
(* list of distinct operations, a receiver a list as long as that one, one *)
(* shorter or one longer, over operations that need not be the ones rank 0 *)
(* holds.  It is the call of the last iteration of the caller's loop.      *)
(***************************************************************************)
\* the operations a list can hold
OpUniverse == 0 .. MaxSmallOps

\* the lists of n distinct operations of S
InjSeqs(S, n) ==
    { q \in [1 .. n -> S] : \A a \in 1 .. n : \A b \in 1 .. n : q[a] = q[b] => a = b }

BcastCallInit ==
    /\ g = [n |-> 0]
    /\ tree = <<>>
    /\ pc = "mcts"
    /\ selected = Null
    /\ child = Null
    /\ order = <<>>
    /\ iter = 0
    /\ twin = <<>>
    /\ pool = <<>>
    /\ cmp = <<>>
    /\ fg = [n |-> 0]
    /\ completed = <<>>
    /\ plat = [streams_ |-> 0]
    /\ ret = <<>>
    /\ issued = <<>>
    /\ ensured = FALSE
    /\ \E n \in 1 .. MaxSmallOps :
          \E sent \in InjSeqs(OpUniverse, n) :
             \E local \in [Receivers -> {SetToSeq(S) : S \in {T \in SUBSET OpUniverse :
                                                    Cardinality(T) \in n - 1 .. n + 1}}] :
                /\ ranks = [r \in Ranks |->
                              [pc |-> "count", i |-> McIters - 1,
                               order |-> IF r = 0 THEN sent ELSE local[r],
                               orderSize |-> 0, nameLengths |-> <<>>, allNames |-> <<>>,
                               tree |-> <<>>]]
                /\ bcastOrders = ((McIters - 1) :> sent)
    /\ chan = [r \in Receivers |-> <<>>]

BcastCallNext ==
    \E r \in Ranks :
        BcastCount(r) \/ BcastLengths(r) \/ BcastNames(r) \/ BcastReorder(r)

BcastCallSpec == BcastCallInit /\ [][BcastCallNext]_vars

\* the names a receiver at "reorder" has split from the bytes received
ReceivedNames(r) == SplitNames(ranks[r].allNames, ranks[r].nameLengths, 0)

\* a name received matches no operation of the local list
UnknownName(r) ==
    \E k \in DOMAIN ReceivedNames(r) : FindByName(ranks[r].order, ReceivedNames(r)[k]) = 0

\* C11: a receiver's list is the one it entered mpi_bcast with until the
\* names are matched; if a name then matches no operation of the list, the
\* call fails and the list is still that one, otherwise the call returns.
C11_UnknownNameFatal ==
    [][\A r \in Receivers :
          /\ ranks[r].pc \in {"count", "lengths", "names", "abort"} =>
                ranks'[r].order = ranks[r].order
          /\ (ranks[r].pc = "reorder" /\ ranks'[r] # ranks[r]) =>
                IF UnknownName(r)
                THEN ranks'[r].pc = "abort" /\ ranks'[r].order = ranks[r].order
                ELSE ranks'[r].pc = "loop"]_vars

\* a receiver has failed on a name after it had matched the first name, at
\* another position than the first
C11_Witness ==
    \E r \in Receivers :
        /\ ranks[r].pc = "abort"
        /\ FindByName(ranks[r].order, name(ranks[0].order[1])) > 1

\* C12: when rank 0 has completed i iterations of the loop of mcts(), the
\* root has i playouts and the node expand returned last has at least one.
C12_BackpropEveryIteration ==
    (pc = "mcts" /\ g.n > 0 /\ ranks[0].pc = "loop") =>
        /\ tree[Root].times = ranks[0].i
        /\ ranks[0].i > 0 => tree[child].times >= 1

(***************************************************************************)
(* Termination of the driver.  The driver is sequential code: when it is   *)
(* not done its next step is taken, and every step moves pc.  Advance is   *)
(* enabled exactly when a step of Next is, and pc changes exactly in the   *)
(* steps of Next, so the condition is weak fairness of Next.               *)
(***************************************************************************)
\* the driver has left its loop: budget exhausted, root fully visited, or a
\* fatal error
DriverDone ==
    \/ pc = "abort"
    \/ pc = "select" /\ (iter >= MaxIters \/ tree[Root].fullyVisited_)

Advance == ~DriverDone /\ pc' \in {"select", "expand", "simulate", "backprop", "abort"}

FairSpec == Spec /\ WF_pc(Advance)

C14_OnlyRankZeroHoldsTree ==
    pc = "mcts" => \A r \in Receivers : DOMAIN ranks[r].tree = {}

(***************************************************************************)
(* Platform used on its own (include/sched/platform.hpp): a caller          *)
(* constructs a Platform and calls its member functions in any order.      *)
(***************************************************************************)
\* most streams a caller adds to the default one
MaxStreams == 2

\* most event handles a caller asks for between two resets
MaxEvents == 3

Max(a, b) == IF a > b THEN a ELSE b

reset_dynamic_resources(pl) == [pl EXCEPT !.iEvent_ = 0]

num_events(pl) == pl.iEvent_

\* the two fatal errors of num_streams
num_streams_throws(pl) == pl.streams_ # pl.cStreams_ \/ pl.streams_ = 0

\* cuda_stream that accepts the id one past the last stream
cuda_streamOffByOne(pl, id) ==
    IF id > pl.streams_ THEN [thrown |-> TRUE, value |-> None]
    ELSE [thrown |-> FALSE, value |-> id]

\* cuda_stream: the physical stream cStreams_[id], or a fatal error
cuda_stream(pl, id) ==
    IF id >= pl.streams_ THEN [thrown |-> TRUE, value |-> None]
    ELSE [thrown |-> FALSE, value |-> id]

\* cuda_event that tests the pool of physical events only
cuda_eventPoolOnly(pl, id) ==
    IF id >= pl.events_ THEN [thrown |-> TRUE, value |-> None]
    ELSE [thrown |-> FALSE, value |-> id]

\* cuda_event: the physical event events_[id], or one of two fatal errors
cuda_event(pl, id) ==
    IF id >= pl.events_ THEN [thrown |-> TRUE, value |-> None]
    ELSE IF id >= pl.iEvent_ THEN [thrown |-> TRUE, value |-> None]
    ELSE [thrown |-> FALSE, value |-> id]

RECURSIVE ensure_streams(_, _)
ensure_streams(pl, n) ==
    IF num_streams(pl) < n THEN ensure_streams(new_stream(pl), n) ELSE pl

RECURSIVE reserve_events(_, _)
reserve_events(pl, n) ==
    IF pl.events_ < n
    THEN reserve_events([pl EXCEPT !.events_ = pl.events_ + 1], n)
    ELSE pl

ensure_events(pl, n) ==
    LET pl2 == reserve_events(pl, n)
    IN  IF pl2.iEvent_ < n THEN [pl2 EXCEPT !.iEvent_ = n] ELSE pl2

\* new_event that returns the id without advancing iEvent_
new_eventNoAdvance(pl) ==
    LET pl2 == reserve_events(pl, pl.iEvent_ + 1)
    IN  <<pl2.iEvent_, pl2>>

\* new_event: <<id of the Event returned, platform after the call>>
new_event(pl) ==
    LET pl2 == reserve_events(pl, pl.iEvent_ + 1)
    IN  <<pl2.iEvent_, [pl2 EXCEPT !.iEvent_ = pl2.iEvent_ + 1]>>

Call(op, arg, thrown, value) ==
    [op |-> op, arg |-> arg, thrown |-> thrown, value |-> value]

(***************************************************************************)
(* CudaEventPool (include/sched/platform.hpp): events_ counts the physical *)
(* events, i_ is the index of the next event; pc is the position of the    *)
(* caller (idle between calls, loop inside new_event), created counts the   *)
(* physical events the current call has created, last is the index the     *)
(* last call returned.                                                      *)
(***************************************************************************)
\* physical events the device can create before cudaEventCreateWithFlags
\* fails
MaxPool == 4

NewPool == [events_ |-> 0, i_ |-> 0, pc |-> "idle", created |-> 0, last |-> None]

PlatformInit ==
    /\ plat = NewPlatform
    /\ ret = Call("Platform", None, FALSE, None)
    /\ issued = <<>>
    /\ ensured = FALSE
    /\ pc = "platform"
    /\ g = [n |-> 0]
    /\ tree = <<>>
    /\ selected = Null
    /\ child = Null
    /\ order = <<>>
    /\ iter = 0
    /\ twin = <<>>
    /\ pool = NewPool
    /\ cmp = <<>>
    /\ fg = [n |-> 0]
    /\ completed = <<>>
    /\ ranks = <<>>
    /\ chan = <<>>
    /\ bcastOrders = <<>>

PlatformFrame == UNCHANGED <<treeVars, fg, completed, twin, pool, cmp, bcastVars>>

ResetDynamicResources ==
    /\ pc = "platform"
    /\ plat' = reset_dynamic_resources(plat)
    /\ ret' = Call("reset_dynamic_resources", None, FALSE, None)
    /\ issued' = <<>>
    /\ ensured' = FALSE
    /\ PlatformFrame

CudaStream ==
    /\ pc = "platform"
    /\ \E id \in 0 .. MaxStreams + 1 :
          LET r == cuda_stream(plat, id)
          IN  ret' = Call("cuda_stream", id, r.thrown, r.value)
    /\ UNCHANGED <<plat, issued, ensured>>
    /\ PlatformFrame

CudaEvent ==
    /\ pc = "platform"
    /\ \E id \in 0 .. MaxEvents :
          LET r == cuda_event(plat, id)
          IN  ret' = Call("cuda_event", id, r.thrown, r.value)
    /\ UNCHANGED <<plat, issued, ensured>>
    /\ PlatformFrame

NewStream ==
    /\ pc = "platform"
    /\ num_streams(plat) < MaxStreams
    /\ plat' = new_stream(plat)
    /\ ret' = Call("new_stream", None, FALSE, plat.streams_)
    /\ UNCHANGED <<issued, ensured>>
    /\ PlatformFrame

EnsureStreams ==
    /\ pc = "platform"
    /\ \E n \in 0 .. MaxStreams :
          IF num_streams_throws(plat)
          THEN /\ ret' = Call("ensure_streams", n, TRUE, None)
               /\ plat' = plat
          ELSE /\ ret' = Call("ensure_streams", n, FALSE, None)
               /\ plat' = ensure_streams(plat, n)
    /\ UNCHANGED <<issued, ensured>>
    /\ PlatformFrame

NewEvent ==
    /\ pc = "platform"
    /\ plat.iEvent_ < MaxEvents
    /\ LET r == new_event(plat)
       IN  /\ plat' = r[2]
           /\ ret' = Call("new_event", None, FALSE, r[1])
           /\ issued' = Append(issued, r[1])
    /\ UNCHANGED ensured
    /\ PlatformFrame

ReserveEvents ==
    /\ pc = "platform"
    /\ \E n \in 0 .. MaxEvents :
          /\ plat' = reserve_events(plat, n)
          /\ ret' = Call("reserve_events", n, FALSE, None)
    /\ UNCHANGED <<issued, ensured>>
    /\ PlatformFrame

EnsureEvents ==
    /\ pc = "platform"
    /\ \E n \in 0 .. MaxEvents :
          /\ plat' = ensure_events(plat, n)
          /\ ret' = Call("ensure_events", n, FALSE, None)
    /\ ensured' = TRUE
    /\ UNCHANGED issued
    /\ PlatformFrame

PoolFrame ==
    UNCHANGED <<treeVars, fg, completed, twin, plat, ret, issued, ensured, cmp, bcastVars>>

\* a call of CudaEventPool::new_event begins
PoolNewEvent ==
    /\ pc = "platform"
    /\ pool.pc = "idle"
    /\ pool' = [pool EXCEPT !.pc = "loop", !.created = 0]
    /\ PoolFrame

\* one test of the while condition: the body creates an event (a fatal
\* error when the device has none left), the exit returns events_[i_++]
PoolLoop ==
    /\ pc = "platform"
    /\ pool.pc = "loop"
    /\ pool' = IF pool.i_ <= pool.events_
               THEN IF pool.events_ < MaxPool
                    THEN [pool EXCEPT !.events_ = pool.events_ + 1,
                                      !.created = pool.created + 1]
                    ELSE [pool EXCEPT !.pc = "error"]
               ELSE [pool EXCEPT !.pc = "idle", !.last = pool.i_, !.i_ = pool.i_ + 1]
    /\ PoolFrame

\* CudaEventPool::reset
PoolReset ==
    /\ pc = "platform"
    /\ pool.pc = "idle"
    /\ pool' = [pool EXCEPT !.i_ = 0]
    /\ PoolFrame

PlatformNext ==
    \/ ResetDynamicResources
    \/ CudaStream
    \/ CudaEvent
    \/ NewStream
    \/ EnsureStreams
    \/ NewEvent
    \/ ReserveEvents
    \/ EnsureEvents
    \/ PoolNewEvent
    \/ PoolLoop
    \/ PoolReset

PlatformSpec == PlatformInit /\ [][PlatformNext]_vars

\* the step is a call of op (a call that repeats the last one on an
\* unchanged platform is a stuttering step)
Called(op) == ret'.op = op /\ <<plat, ret, issued, ensured>>' # <<plat, ret, issued, ensured>>

\* C15: in every reachable Platform state cuda_stream(Stream{i}) returns a
\* handle exactly when i < num_streams()+1 and raises a fatal error for any
\* larger i; a call of cuda_stream leaves the platform unchanged.
C15_CudaStreamValidity ==
    [][/\ pc = "platform" =>
            \A i \in 0 .. MaxStreams + 1 :
               cuda_stream(plat, i).thrown = ~(i < num_streams(plat) + 1)
       /\ Called("cuda_stream") =>
            /\ ret'.thrown = ~(ret'.arg < num_streams(plat) + 1)
            /\ plat' = plat]_vars

C15_Witness ==
    /\ pc = "platform"
    /\ ret.op = "cuda_stream"
    /\ ret.thrown
    /\ ret.arg = num_streams(plat) + 1
    /\ num_streams(plat) > 0

C17_PoolsMonotone ==
    [][pc = "platform" =>
         /\ plat'.streams_ >= plat.streams_
         /\ plat'.cStreams_ >= plat.cStreams_
         /\ plat'.events_ >= plat.events_
         /\ plat.streams_ = plat.cStreams_
         /\ plat'.streams_ = plat'.cStreams_
         /\ (Called("new_stream") =>
               ret'.value = plat.streams_ /\ plat'.streams_ = plat.streams_ + 1)]_vars

C17_Witness ==
    /\ pc = "platform"
    /\ ret.op = "reset_dynamic_resources"
    /\ plat.streams_ = MaxStreams + 1
    /\ plat.events_ = MaxEvents
    /\ plat.iEvent_ = 0

(***************************************************************************)
(* Equality of bound operations (include/sched/ops_cuda.hpp).               *)
(***************************************************************************)
\* the bound operations of the schedule and of its frontier
BoundOpsInPlay ==
    {completed[i] : i \in DOMAIN completed} \cup {Frontier[i] : i \in DOMAIN Frontier}

\* C19: two bound operations are equal exactly when they are the same
\* variant and agree on the operation, stream and event fields; two
\* synchronization operations that differ in an event or a stream are not
\* equal.
C19_EqualityByVariantAndFields ==
    pc = "frontier" =>
        \A a, b \in BoundOpsInPlay : OpEq(a, b) <=> a = b

(***************************************************************************)
(* get_frontier on graphs of CPU operations.                               *)
(***************************************************************************)
CpuOnly(gr) == \A v \in Ops(gr) : gr.kind[v] = "cpu"

\* the operations not in seq all of whose predecessors are in seq
Ready(gr, seq) ==
    { v \in Ops(gr) : /\ ~contains_unbound(seq, v)
                      /\ \A pr \in Preds(gr, v) : contains_unbound(seq, pr) }

\* C20: for a graph of CPU operations and a non-empty legal prefix, the
\* frontier holds no synchronization and is exactly the set of operations
\* not in the prefix all of whose predecessors are in it.
C20_CpuOnlyFrontier ==
    (pc = "frontier" /\ CpuOnly(fg) /\ completed # <<>>) =>
        /\ \A i \in DOMAIN Frontier : ~IsSyncOp(Frontier[i]) /\ Frontier[i] = CpuOp(Frontier[i].op)
        /\ {Frontier[i].op : i \in DOMAIN Frontier} = Ready(fg, completed)
        /\ Len(Frontier) = Cardinality(Ready(fg, completed))

\* an operation is ready while another, with one predecessor of two in
\* the prefix, is not
C20_Witness ==
    /\ pc = "frontier"
    /\ CpuOnly(fg)
    /\ Len(completed) >= 2
    /\ Len(Frontier) >= 1
    /\ \E v \in Ops(fg) \ Ready(fg, completed) :
          /\ ~contains_unbound(completed, v)
          /\ \E pr \in Preds(fg, v) : contains_unbound(completed, pr)

(***************************************************************************)
(* Two runs of the search on one rank, given the same inputs.  The inputs  *)
(* of select are, for every node it passes, the UCT values of the children *)
(* (they stand for the benchmark results) and the value of rand(); the     *)
(* inputs of get_simulation_order are the values of rand().                *)
(***************************************************************************)
\* rand() returns 0 .. MaxDraw - 1
MaxDraw == 3

Draws == 0 .. MaxDraw - 1

\* tie break that does not depend on the draw
TieBreakAny(choices, r) == {choices[i] : i \in DOMAIN choices}

\* tie break fixed to the first of the tied children
TieBreakFirst(choices, r) == {choices[1]}

\* im = choices[rand() % choices.size()]
TieBreak(choices, r) == {choices[(r % Len(choices)) + 1]}

\* the inputs select can consume from node p on
RECURSIVE SelectInputs(_, _, _)
SelectInputs(gr, t, p) ==
    IF is_leaf(t, p) \/ is_terminal(gr, t, p)
    THEN {<<>>}
    ELSE UNION { UNION { { <<[ucts |-> in[1], draw |-> in[2]]>> \o rest :
                             rest \in SelectInputs(gr, t, t[p].children_[im]) }
                         : im \in TieBreak(SetToSeq(Choices(in[1])), in[2]) }
                 : in \in UctVectors(t, p) \X Draws }

\* the nodes select can return from node p on when it consumes the inputs in
RECURSIVE selectGiven(_, _, _, _)
selectGiven(gr, t, p, in) ==
    IF is_leaf(t, p) \/ is_terminal(gr, t, p) \/ in = <<>>
    THEN {p}
    ELSE IF DOMAIN Head(in).ucts # DOMAIN t[p].children_
    THEN {p}
    ELSE UNION { selectGiven(gr, t, t[p].children_[im], Tail(in))
                 : im \in TieBreak(SetToSeq(Choices(Head(in).ucts)), Head(in).draw) }

\* the "random path" loop when rand() returns the values rs in turn
RECURSIVE RandomPathGiven(_, _, _, _)
RandomPathGiven(gr, path, frontier, rs) ==
    IF frontier = <<>> \/ rs = <<>> THEN path
    ELSE LET s == RandomStep(gr, path, frontier, (Head(rs) % Len(frontier)) + 1)
         IN  RandomPathGiven(gr, s[1], s[2], Tail(rs))

get_simulation_orderGiven(gr, t, p, rs) ==
    LET path == Reverse(PathToRoot(t, p))
    IN  RandomPathGiven(gr, path, InitialFrontier(gr, path, path, <<>>), rs)

\* the values of rand() one call of get_simulation_order at node p consumes
SimulationInputs(gr, t, p) == [1 .. gr.n - Len(PathToRoot(t, p)) -> Draws]

Run(t, s, c, o) == [tree |-> t, selected |-> s, child |-> c, order |-> o]

DetInit ==
    /\ g \in SmallGraphs \cup {Diamond, Fan}
    /\ tree = (Root :> NewNode(start_))
    /\ pc = "select"
    /\ selected = Null
    /\ child = Null
    /\ order = <<>>
    /\ iter = 0
    /\ twin = Run(Root :> NewNode(start_), Null, Null, <<>>)
    /\ pool = <<>>
    /\ cmp = <<>>
    /\ fg = [n |-> 0]
    /\ completed = <<>>
    /\ plat = [streams_ |-> 0]
    /\ ret = <<>>
    /\ issued = <<>>
    /\ ensured = FALSE
    /\ ranks = <<>>
    /\ chan = <<>>
    /\ bcastOrders = <<>>

DetFrame == UNCHANGED <<fg, completed, plat, ret, issued, ensured, pool, cmp, bcastVars>>

DetSelect ==
    /\ pc = "select"
    /\ iter < MaxIters
    /\ ~tree[Root].fullyVisited_
    /\ \E in \in SelectInputs(g, tree, Root) :
          /\ selected' \in selectGiven(g, tree, Root, in)
          /\ \E s2 \in selectGiven(g, twin.tree, Root, in) :
                twin' = [twin EXCEPT !.selected = s2]
    /\ pc' = "expand"
    /\ UNCHANGED <<g, tree, child, order, iter>>
    /\ DetFrame

DetExpand ==
    /\ pc = "expand"
    /\ LET t1 == ExpandChildren(g, tree, selected)
           c == ExpandReturn(t1, selected)
           t2 == ExpandChildren(g, twin.tree, twin.selected)
           c2 == ExpandReturn(t2, twin.selected)
       IN  /\ tree' = t1
           /\ child' = c
           /\ twin' = [twin EXCEPT !.tree = t2, !.child = c2]
           /\ pc' = IF c = Unreachable THEN "abort" ELSE "simulate"
    /\ UNCHANGED <<g, selected, order, iter>>
    /\ DetFrame

DetSimulate ==
    /\ pc = "simulate"
    /\ \E rs \in SimulationInputs(g, tree, child) :
          /\ order' = get_simulation_orderGiven(g, tree, child, rs)
          /\ twin' = [twin EXCEPT
                        !.order = get_simulation_orderGiven(g, twin.tree, twin.child, rs)]
    /\ pc' = "backprop"
    /\ UNCHANGED <<g, tree, selected, child, iter>>
    /\ DetFrame

DetBackprop ==
    /\ pc = "backprop"
    /\ tree' = backprop(tree, child)
    /\ twin' = [twin EXCEPT !.tree = backprop(twin.tree, twin.child)]
    /\ iter' = iter + 1
    /\ pc' = "select"
    /\ UNCHANGED <<g, selected, child, order>>
    /\ DetFrame

DetNext == DetSelect \/ DetExpand \/ DetSimulate \/ DetBackprop

DetSpec == DetInit /\ [][DetNext]_vars

C21_ExpandNeverUnreachable == pc # "abort"

\* C22: a terminal node, a node whose operation has no successor in the
\* graph, never has children.
C22_TerminalNodeChildless ==
    pc \in {"select", "expand", "simulate", "backprop", "abort"} =>
        \A p \in DOMAIN tree : is_terminal(g, tree, p) => tree[p].children_ = <<>>

\* C23: the first backprop that starts at a terminal node sets the node's
\* fullyVisited_.
C23_TerminalFirstVisitFullyVisited ==
    [][(pc = "backprop" /\ pc' = "select"
        /\ is_terminal(g, tree, child) /\ tree[child].n_ = 0)
       => tree'[child].fullyVisited_]_vars

\* C24: is_leaf() of a node is true exactly when the node has no children
\* or one of its children has playout count n_ zero.
C24_LeafIffUnplayedChild ==
    pc \in {"select", "expand", "simulate", "backprop", "abort"} =>
        \A p \in DOMAIN tree :
            is_leaf(tree, p) <=>
                \/ tree[p].children_ = <<>>
                \/ \E i \in DOMAIN tree[p].children_ : tree[tree[p].children_[i]].n_ = 0

\* an inner node that is no leaf and one that is a leaf with a played child
C24_Witness ==
    /\ pc = "select"
    /\ \E p \in DOMAIN tree : ~is_leaf(tree, p)
    /\ \E p \in DOMAIN tree :
          /\ is_leaf(tree, p)
          /\ \E i \in DOMAIN tree[p].children_ : tree[tree[p].children_[i]].n_ > 0

\* C25: a backprop started at node x adds one to n_ of x and of every
\* ancestor of x up to the root and calls the strategy's backprop once on
\* each; n_, children_ and expanded_ of every other node are unchanged.
C25_BackpropFrame ==
    [][(pc = "backprop" /\ pc' = "select") =>
          /\ DOMAIN tree' = DOMAIN tree
          /\ \A p \in DOMAIN tree :
                IF IsPrefix(p, child)
                THEN /\ tree'[p].n_ = tree[p].n_ + 1
                     /\ tree'[p].times = tree[p].times + 1
                ELSE /\ tree'[p].n_ = tree[p].n_
                     /\ tree'[p].times = tree[p].times
                     /\ tree'[p].children_ = tree[p].children_
                     /\ tree'[p].expanded_ = tree[p].expanded_]_vars

\* the last backprop started two levels below the root and passed by nodes
\* that had been played
C25_Witness ==
    /\ pc = "select"
    /\ iter >= 3
    /\ Len(child) >= 3
    /\ tree[child].n_ = 1
    /\ \E p \in DOMAIN tree : ~IsPrefix(p, child) /\ tree[p].n_ >= 1

\* C26: after expand on a node its children carry pairwise distinct
\* operations, none of them on the node's root path, each with all its
\* predecessors on that path, and each child's parent_ is the node; a second
\* expand on the node adds no children.
C26_ExpandChildren ==
    [][(pc = "expand" /\ pc' # "expand") =>
          LET p == selected
              path == PathToRoot(tree', p)
              ch == tree'[p].children_
          IN  /\ tree'[p].expanded_
              /\ \A i, j \in DOMAIN ch : tree'[ch[i]].op_ = tree'[ch[j]].op_ => i = j
              /\ \A i \in DOMAIN ch :
                    /\ ~InSeq(path, tree'[ch[i]].op_)
                    /\ \A pr \in Preds(g, tree'[ch[i]].op_) : InSeq(path, pr)
                    /\ tree'[ch[i]].parent_ = p
              /\ tree[p].expanded_ =>
                    /\ ch = tree[p].children_
                    /\ DOMAIN tree' = DOMAIN tree]_vars

\* expand was called a second time on a node: it returned the node's second
\* child, while another operation of the graph is no child because a
\* predecessor of it is not on the path
C26_Witness ==
    /\ pc = "simulate"
    /\ Len(tree[selected].children_) >= 2
    /\ child = tree[selected].children_[2]
    /\ \E v \in Ops(g) :
          /\ ~InSeq(PathToRoot(tree, selected), v)
          /\ \A i \in DOMAIN tree[selected].children_ : tree[tree[selected].children_[i]].op_ # v

\* C27: when the expanded node has a child with zero playouts expand returns
\* the first such child in the order of children_; when the node has no
\* children expand returns the node itself.
C27_ExpandReturnsFirstUnplayed ==
    [][(pc = "expand" /\ pc' # "expand") =>
          LET ch == tree'[selected].children_
              unplayed == {i \in DOMAIN ch : tree'[ch[i]].n_ = 0}
          IN  /\ ch = <<>> => child' = selected
              /\ unplayed # {} => child' = ch[Min(unplayed)]]_vars

\* expand returned the second of three children while the third is unplayed
C27_Witness ==
    /\ pc = "simulate"
    /\ Len(tree[selected].children_) >= 3
    /\ child = tree[selected].children_[2]
    /\ tree[tree[selected].children_[3]].n_ = 0

\* the nodes select passed on its way to the node it returned, each with
\* the child it chose: <<node, chosen child>>
Descents(s) == { <<SubSeq(s, 1, k), SubSeq(s, 1, k + 1)>> : k \in 1 .. Len(s) - 1 }

\* C28: select never chooses a fully visited child while a sibling that is
\* not fully visited exists.
C28_FullyVisitedChildAvoided ==
    pc = "expand" =>
        \A d \in Descents(selected) :
            tree[d[2]].fullyVisited_ =>
                \A i \in DOMAIN tree[d[1]].children_ :
                    tree[tree[d[1]].children_[i]].fullyVisited_

\* select passed a node with a fully visited child and chose a sibling
C28_Witness ==
    /\ pc = "expand"
    /\ \E d \in Descents(selected) :
          /\ ~tree[d[2]].fullyVisited_
          /\ \E i \in DOMAIN tree[d[1]].children_ :
                tree[tree[d[1]].children_[i]].fullyVisited_

C30_ArgmaxWithRandomTieBreak ==
    twin # <<>> =>
        \A p \in DOMAIN tree :
            (~is_leaf(tree, p) /\ ~is_terminal(g, tree, p)) =>
                \A u \in UctVectors(tree, p) :
                    LET choices == SetToSeq(Choices(u))
                    IN  /\ \A r \in Draws : \A im \in TieBreak(choices, r) :
                              \A j \in DOMAIN u : u[j] <= u[im]
                        /\ \A k \in DOMAIN choices :
                              \E r \in Draws : choices[k] \in TieBreak(choices, r)

\* select passed a node none of whose children is fully visited and chose a
\* child that is not the first
C30_Witness ==
    /\ twin # <<>>
    /\ pc = "expand"
    /\ \E d \in Descents(selected) :
          /\ d[2] # tree[d[1]].children_[1]
          /\ \A i \in DOMAIN tree[d[1]].children_ :
                ~tree[tree[d[1]].children_[i]].fullyVisited_

\* C31: the ordering get_simulation_order returns begins with the path from
\* the root to the node, root first, and holds every operation of the graph
\* reachable from start, each once.
C31_PlayoutComplete ==
    pc = "backprop" =>
        /\ IsPrefix(Reverse(PathToRoot(tree, child)), order)
        /\ \A v \in Ops(g) : InSeq(order, v)
        /\ Len(order) = g.n

\* the playout started two levels below the root and added two operations
C31_Witness ==
    /\ pc = "backprop"
    /\ Len(child) >= 2
    /\ Len(order) >= Len(child) + 2

\* C32: every rank takes part in the three broadcasts in the order count,
\* name lengths, name bytes; on every rank the lengths broadcast carries N
\* entries and the names broadcast the sum of the lengths in bytes, N being
\* the count rank 0 broadcast, also when the local list of the receiver has
\* another length.
C32_BcastCountsAgree ==
    pc = "mcts" =>
        \A r \in Ranks :
            /\ ranks[r].pc = "lengths" =>
                  Len(NameLengths(ranks[r].order)) = ranks[r].orderSize
            /\ ranks[r].pc = "names" =>
                  /\ Len(ranks[r].nameLengths) = ranks[r].orderSize
                  /\ (r # 0 /\ chan[r] # <<>>) =>
                        Sum(ranks[r].nameLengths) = Len(Head(chan[r]))
            /\ ranks[r].pc # "undefined"

\* C33: cuda_event(e) returns a handle exactly when e.id_ < num_events(),
\* so a handle issued before reset_dynamic_resources() is rejected after the
\* reset until its id is issued again; num_events() is at most the number of
\* physical events in the pool.
C33_CudaEventValidity ==
    [][/\ pc = "platform" =>
            /\ num_events(plat) <= plat.events_
            /\ \A i \in 0 .. MaxEvents :
                  cuda_event(plat, i).thrown = ~(i < num_events(plat))
       /\ Called("cuda_event") =>
            /\ ret'.thrown = ~(ret'.arg < num_events(plat))
            /\ plat' = plat]_vars

\* after a reset one handle was issued again; cuda_event rejected the next
\* id, whose physical event is still in the pool
C33_Witness ==
    /\ pc = "platform"
    /\ ret.op = "cuda_event"
    /\ ret.thrown
    /\ issued = <<0>>
    /\ ~ensured
    /\ ret.arg = 1
    /\ plat.events_ >= 2

\* C38: a call of CudaEventPool::new_event creates at most one physical
\* event and never ends in the fatal error of a device that has no event
\* left to create, so that the call returns.
C38_PoolNewEventTerminates ==
    pc = "platform" =>
        /\ pool.created <= 1
        /\ pool.pc # "error"

(***************************************************************************)
(* operator== and operator< of two operations of one variant               *)
(* (include/sched/ops_cuda.hpp, include/sched/ops_mpi.hpp).                 *)
(***************************************************************************)
\* the names and Args values an operation is constructed with
MaxNames == 2

\* std::string operator<; the fixed names of one variant are one string
NameLt(x, y) == IF x = y THEN FALSE ELSE x < y

\* operator< of the variant of a and b
OpLt(a, b) ==
    CASE a.type = "gpu" -> IF a.stream < b.stream THEN TRUE
                           ELSE IF a.stream > b.stream THEN FALSE
                           ELSE a.op < b.op
      [] OTHER -> NameLt(OpName(a), OpName(b))

CompareValues ==
    {BoundGpuOp(v, s) : v \in 1 .. MaxNames, s \in 0 .. MaxStreams}
        \cup {StreamSync(s) : s \in 0 .. MaxStreams}
        \cup {CudaEventRecord(e, s) : e \in 0 .. MaxNames - 1, s \in 0 .. MaxStreams}
        \cup {CudaEventSync(e) : e \in 0 .. MaxNames - 1}
        \cup {Irecv(a, n) : a \in 1 .. MaxNames, n \in 1 .. MaxNames}

CompareInit ==
    /\ pc = "compare"
    /\ \E a, b \in CompareValues :
           /\ a.type = b.type
           /\ cmp = [a |-> a, b |-> b, done |-> FALSE, eq |-> FALSE, lt |-> FALSE, gt |-> FALSE]
    /\ g = [n |-> 0]
    /\ tree = <<>>
    /\ selected = Null
    /\ child = Null
    /\ order = <<>>
    /\ iter = 0
    /\ twin = <<>>
    /\ pool = <<>>
    /\ fg = [n |-> 0]
    /\ completed = <<>>
    /\ plat = NewPlatform
    /\ ret = <<>>
    /\ issued = <<>>
    /\ ensured = FALSE
    /\ ranks = <<>>
    /\ chan = <<>>
    /\ bcastOrders = <<>>

\* a == b, a < b and b < a
Compare ==
    /\ pc = "compare"
    /\ ~cmp.done
    /\ cmp' = [cmp EXCEPT !.done = TRUE,
                          !.eq = OpEq(cmp.a, cmp.b),
                          !.lt = OpLt(cmp.a, cmp.b),
                          !.gt = OpLt(cmp.b, cmp.a)]
    /\ UNCHANGED <<treeVars, fg, completed, plat, ret, issued, ensured, twin, pool, bcastVars>>

CompareNext == Compare

CompareSpec == CompareInit /\ [][CompareNext]_vars

\* C34: for two operations of one variant, a == b holds exactly when
\* neither a < b nor b < a.
C34_EqualIffNeitherLess ==
    (pc = "compare" /\ cmp.done) => (cmp.eq <=> (~cmp.lt /\ ~cmp.gt))

(***************************************************************************)
(* bind_unbound_vertex (src/mcts_node.cpp).  The graph carries, next to    *)
(* kind, the stream each GPU operation is bound to (None when unbound).     *)
(***************************************************************************)
\* the operation the graph holds at vertex v
VertexOp(gr, v) ==
    IF gr.kind[v] = "cpu" THEN CpuOp(v)
    ELSE IF gr.stream[v] = None THEN GpuOp(v)
    ELSE BoundGpuOp(v, gr.stream[v])

\* Graph::contains
contains(gr, op) == \E v \in Ops(gr) : OpEq(VertexOp(gr, v), op)

\* BoundGpuOp::unbound
unbound(b) == GpuOp(b.op)

\* Graph::replace of an unbound GpuOp by a bound form of it: the vertex
\* keeps its edges; a graph without old is left as it is
replace(gr, old, new) ==
    IF contains(gr, old) THEN [gr EXCEPT !.stream[old.op] = new.stream] ELSE gr

\* bind_unbound_vertex without the final test
bind_unbound_vertexNoThrow(gr, op) ==
    LET gp == IF ~contains(gr, op) /\ op.type = "gpu"
              THEN replace(gr, unbound(op), op) ELSE gr
    IN  [thrown |-> FALSE, value |-> gp]

bind_unbound_vertex(gr, op) ==
    LET gp == IF ~contains(gr, op) /\ op.type = "gpu"
              THEN replace(gr, unbound(op), op) ELSE gr
    IN  IF ~contains(gp, op) THEN [thrown |-> TRUE, value |-> None]
        ELSE [thrown |-> FALSE, value |-> gp]

\* graphs some of whose GPU operations are bound already
BoundGraphs ==
    UNION { { [n |-> gr.n, succs_ |-> gr.succs_, kind |-> gr.kind, stream |-> st] :
                st \in { f \in [Ops(gr) -> {None} \cup (0 .. MaxStreams)] :
                            \A v \in Ops(gr) : gr.kind[v] = "cpu" => f[v] = None } }
            : gr \in FrontierGraphs }

\* the operations handed to bind_unbound_vertex
BindArgs ==
    {CpuOp(v) : v \in 0 .. MaxSmallOps}
        \cup {BoundGpuOp(v, s) : v \in 0 .. MaxSmallOps, s \in 0 .. MaxStreams}
        \cup {StreamSync(s) : s \in 0 .. MaxStreams}

BindInit ==
    /\ pc = "bind"
    /\ fg \in BoundGraphs
    /\ ret = Call("Graph", None, FALSE, None)
    /\ g = [n |-> 0]
    /\ tree = <<>>
    /\ selected = Null
    /\ child = Null
    /\ order = <<>>
    /\ iter = 0
    /\ twin = <<>>
    /\ pool = <<>>
    /\ cmp = <<>>
    /\ completed = <<>>
    /\ plat = NewPlatform
    /\ issued = <<>>
    /\ ensured = FALSE
    /\ ranks = <<>>
    /\ chan = <<>>
    /\ bcastOrders = <<>>

BindUnboundVertex ==
    /\ pc = "bind"
    /\ \E op \in BindArgs :
          LET r == bind_unbound_vertex(fg, op)
          IN  ret' = Call("bind_unbound_vertex", op, r.thrown, r.value)
    /\ UNCHANGED <<treeVars, fg, completed, plat, issued, ensured, twin, pool, cmp, bcastVars>>

BindNext == BindUnboundVertex

BindSpec == BindInit /\ [][BindNext]_vars

\* C35: bind_unbound_vertex leaves g as it was; the graph it returns
\* contains op, in the place of op's unbound GpuOp and with that
\* operation's edges when op was not in g; when op is neither in g nor a
\* BoundGpuOp whose unbound form is in g the call fails.
C35_BindUnboundVertex ==
    [][(pc = "bind" /\ ret'.op = "bind_unbound_vertex") =>
          LET op == ret'.arg
              gp == ret'.value
              bindable == op.type = "gpu" /\ contains(fg, unbound(op))
          IN  /\ fg' = fg
              /\ ~ret'.thrown =>
                    /\ contains(gp, op)
                    /\ gp.n = fg.n /\ gp.succs_ = fg.succs_
                    /\ ~contains(fg, op) =>
                          /\ bindable
                          /\ ~contains(gp, unbound(op))
                          /\ \A v \in Ops(fg) \ {op.op} : VertexOp(gp, v) = VertexOp(fg, v)
                    /\ contains(fg, op) => gp = fg
              /\ (~contains(fg, op) /\ ~bindable) => ret'.thrown]_vars

\* a GPU operation of a graph that holds a bound operation already was
\* bound to a stream
C35_Witness ==
    /\ pc = "bind"
    /\ ret.op = "bind_unbound_vertex"
    /\ ~ret.thrown
    /\ ret.arg.type = "gpu"
    /\ ~contains(fg, ret.arg)
    /\ \E v \in Ops(fg) : fg.stream[v] # None

(***************************************************************************)
(* Two calls of get_frontier in a row (src/mcts_node.cpp).                  *)
(***************************************************************************)
\* the frontier of a second call, on the platform the first call left
SecondFrontier ==
    get_frontier(get_frontier(plat, fg, completed)[2], fg, completed)[1]

RECURSIVE WalkReachesRoot(_, _, _)
WalkReachesRoot(t, p, k) ==
    IF p = Root THEN TRUE
    ELSE IF k = 0 \/ t[p].parent_ \notin DOMAIN t THEN FALSE
    ELSE WalkReachesRoot(t, t[p].parent_, k - 1)

\* the nodes whose children_ holds q
Holders(t, q) == {p \in DOMAIN t : \E i \in DOMAIN t[p].children_ : t[p].children_[i] = q}

TreeShape(t) ==
    /\ Root \in DOMAIN t
    /\ t[Root].parent_ = Null
    /\ \A q \in DOMAIN t \ {Root} :
          /\ t[q].parent_ \in DOMAIN t
          /\ Holders(t, q) = {t[q].parent_}
          /\ WalkReachesRoot(t, q, Cardinality(DOMAIN t))
    /\ \A p \in DOMAIN t : \A i, j \in DOMAIN t[p].children_ :
          /\ t[p].children_[i] \in DOMAIN t
          /\ t[p].children_[i] = t[p].children_[j] => i = j

\* C37: the root has a null parent_, the parent_ of every other node is
\* the one node whose children_ holds it, and the walk over parent_ from any
\* node arrives at the root; no step removes a node, removes or reorders
\* children, clears expanded_ or decreases n_.
C37_TreeOnlyGrows ==
    [][/\ TreeShape(tree)
       /\ TreeShape(tree')
       /\ \A p \in DOMAIN tree :
             /\ p \in DOMAIN tree'
             /\ tree'[p].parent_ = tree[p].parent_
             /\ IsPrefix(tree[p].children_, tree'[p].children_)
             /\ tree[p].expanded_ => tree'[p].expanded_
             /\ tree'[p].n_ >= tree[p].n_]_vars

\* a node two levels below the root was expanded and played after its
\* parent had been played twice
C37_Witness ==
    /\ pc = "select"
    /\ \E q \in DOMAIN tree :
          /\ Len(q) >= 3
          /\ tree[q].expanded_
          /\ tree[q].children_ # <<>>
          /\ tree[q].n_ >= 1
          /\ tree[tree[q].parent_].n_ >= 2

====
